---- MODULE Spec2Model ----
(***************************************************************************)
(* A model of qop's task queue (src/qop/tasks.py) and of the daemon that  *)
(* drives it (src/qop/daemon.py).                                         *)
(*                                                                         *)
(* The sqlite3 table `tasks` is the function `tasks` from _ROWID_ to row.  *)
(* Every SQL statement together with the commit that follows it is one     *)
(* atomic step; a SELECT is a step of its own (the python sqlite3 module   *)
(* only opens a transaction in front of INSERT/UPDATE/DELETE).  Store      *)
(* contention ("database is locked") is not modelled.                      *)
(*                                                                         *)
(* Paths, messages and uuids are small integers.  uuid.uuid4() is modelled *)
(* by the smallest token that no row and no process currently holds: the   *)
(* program only ever compares a token with tokens that are still stored.   *)
(*                                                                         *)
(* Two methods that the source calls are defined in no source file:       *)
(* TaskQueue.start, which QopDaemon.listen calls to bring the worker pool  *)
(* up, and Converter.run, which the convert tasks call to transcode.  They *)
(* are modelled from the specification: `start` ensures that the pools are *)
(* up, as TaskQueue.run(ip, port) does, and `converter_run` writes the     *)
(* destination or raises.                                                  *)
(***************************************************************************)
EXTENDS Integers, Sequences, FiniteSets, TLC

VARIABLES
    tasks,                   \* the table: _ROWID_ -> [priority, task, status, lock, parent]
    procs,                   \* worker processes: id -> [cls, pc, ip, progress, oid, lock, wrote, op, exc]
    transfer_processes,      \* TaskQueue.transfer_processes of the daemon's queue object
    convert_processes,       \* TaskQueue.convert_processes of the daemon's queue object
    max_transfer_processes,  \* TaskQueue.max_transfer_processes
    max_convert_processes,   \* TaskQueue.max_convert_processes
    persist_queue,           \* QopDaemon.persist_queue
    daemon,                  \* the daemon: "Constructed", "Bound", "Listening", "Stopping",
                             \* "Closed", "Exited" (scoped exit done) or "Dead" (killed)
    npop,                    \* history: successful pop() returns of a row since it last became PENDING
    last,                    \* history: the last operation and its outcome
    events,                  \* history: number of requests and daemon events so far
    client,                  \* a client: the task or message it built, its serialized form,
                             \* and what was read back from that; or a caller of the queue
                             \* object: what fetch or peek returned, the commits of a call
    files,                   \* the file system: path -> content of the file, 0 where none is
    scen                     \* history: position in the restart scenario, 0 outside of it

vars == <<tasks, procs, transfer_processes, convert_processes,
          max_transfer_processes, max_convert_processes, persist_queue, daemon,
          npop, last, events, scen, client, files>>

-----------------------------------------------------------------------------
(* Bounds of the model *)

MaxWorkers == 3      \* worker processes that exist at the same time
MaxEvents == 3       \* requests to the daemon and daemon kills in one behaviour
MaxFiles == 3        \* paths of the file system
ScenPuts == 5        \* QUEUE_PUTs of the restart scenario

\* room for the rows of the clients and for the Moves that Convert tasks spawn
Oids == 1..(2 * MaxEvents + ScenPuts)
Workers == 1..MaxWorkers

-----------------------------------------------------------------------------
(* Program constants *)

NULL == 0

FAIL == -1
PENDING == 0
OK == 1
SKIP == 2
ACTIVE == 3

ECHO == 1
DELETE == 3
COPY == 4
MOVE == 5
CONVERT_SIMPLE == 6
T_FAIL == 7
SLEEP == 8
CONVERT == 9

DefaultPriority == 10
SpawnPriority == -1

Terminal == {OK, SKIP, FAIL}

Max(S) == CHOOSE x \in S : \A y \in S : y <= x

Min(S) == CHOOSE x \in S : \A y \in S : x <= y

-----------------------------------------------------------------------------
(* Tasks.  A task object is the record of its __dict__ (plus oid, which   *)
(* pop() attaches); fields a variant does not have are NULL.  A path is a  *)
(* small number and the string of the path p is the number p + 1000.       *)

\* str(path), for to_dict
str(path) == IF path = NULL THEN NULL ELSE path + 1000

\* Path(string).resolve(), of the string of a resolved path
Path(string) == IF string = NULL THEN NULL ELSE string - 1000

\* The __dict__ of a converter, and the dict Converter.to_dict returns: the
\* keys it has and their values
NoConverter == [keys |-> {}, type |-> NULL, remove_art |-> FALSE]

\* CopyConverter.__init__(remove_art)
CopyConverter(remove_art) ==
    [keys |-> {"remove_art"}, type |-> NULL, remove_art |-> remove_art]

\* CopyConverter.to_dict: {"type": ConverterType.COPY, "remove_art": ...}
Converter_to_dict(c) ==
    IF c = NoConverter THEN NoConverter
    ELSE [keys |-> {"type", "remove_art"}, type |-> NULL, remove_art |-> c.remove_art]

\* Converter.from_dict: conv = CopyConverter(); conv.__dict__.update(x)
Converter_from_dict(x) ==
    IF x = NoConverter THEN NoConverter
    ELSE [keys |-> CopyConverter(FALSE).keys \cup x.keys, type |-> x.type,
          remove_art |-> x.remove_art]

Task(type, msg, src, dst, tmpdst, parent_oid) ==
    [type |-> type, msg |-> msg, src |-> src, dst |-> dst,
     tmpdst |-> tmpdst, parent_oid |-> parent_oid, oid |-> NULL, converter |-> NoConverter]

NoTask == Task(NULL, NULL, NULL, NULL, NULL, NULL)

EchoTask(msg) == Task(ECHO, msg, NULL, NULL, NULL, NULL)

SleepTask(seconds) == Task(SLEEP, seconds, NULL, NULL, NULL, NULL)

FailTask == Task(T_FAIL, NULL, NULL, NULL, NULL, NULL)

DeleteTask(src) == Task(DELETE, NULL, src, NULL, NULL, NULL)

CopyTask(src, dst) == Task(COPY, NULL, src, dst, NULL, NULL)

MoveTask(src, dst, parent_oid) == Task(MOVE, NULL, src, dst, NULL, parent_oid)

SimpleConvertTask(src, dst, converter) ==
    [Task(CONVERT_SIMPLE, NULL, src, dst, NULL, NULL) EXCEPT !.converter = converter]

\* ConvertTask.__init__ draws a new staging path: tmpdst = tempdir/uuid4
ConvertTask(src, dst, converter, uuid) ==
    [Task(CONVERT, NULL, src, dst, uuid, NULL) EXCEPT !.converter = converter]

\* The staging path tempdir/<uuid> as a path
Staged(uuid) == 100 + uuid

\* Task.to_dict / to_json, with the overrides of SimpleConvertTask and
\* ConvertTask: a copy of __dict__ with the paths as strings and the
\* converter as its dict
to_dict(t) ==
    [type |-> t.type, msg |-> t.msg, src |-> str(t.src), dst |-> str(t.dst),
     tmpdst |-> str(t.tmpdst), parent_oid |-> t.parent_oid, oid |-> t.oid,
     converter |-> Converter_to_dict(t.converter)]

\* Task.from_dict: builds the variant from the fields its constructor takes;
\* a Convert task gets a new staging path (uuid), whatever the dict holds
from_dict(x, uuid) ==
    CASE x.type = ECHO    -> EchoTask(x.msg)
      [] x.type = DELETE  -> DeleteTask(Path(x.src))
      [] x.type = COPY    -> CopyTask(Path(x.src), Path(x.dst))
      [] x.type = MOVE    -> MoveTask(Path(x.src), Path(x.dst), x.parent_oid)
      [] x.type = CONVERT_SIMPLE ->
            SimpleConvertTask(Path(x.src), Path(x.dst), Converter_from_dict(x.converter))
      [] x.type = CONVERT ->
            ConvertTask(Path(x.src), Path(x.dst), Converter_from_dict(x.converter), uuid)
      [] x.type = T_FAIL  -> FailTask
      [] x.type = SLEEP   -> SleepTask(x.msg)
      [] OTHER            -> NoTask

\* ConvertTask.spawn: the follow-up Move from the staging path to dst
spawn(op) == MoveTask(Staged(op.tmpdst), op.dst, op.oid)

\* Only ConvertTask has a spawn method (AttributeError otherwise)
HasSpawn(op) == op.type = CONVERT

-----------------------------------------------------------------------------
(* The file system, for the tasks that copy and move files.  A path holds *)
(* a regular file or nothing; directories are not modelled.               *)

FilePaths == 1..MaxFiles

\* no file at any path
NoFiles == [p \in FilePaths |-> 0]

\* Path.exists()
exists(f, path) == path \in DOMAIN f /\ f[path] # 0

\* FileTask.__validate__: the source has to exist
FileTask_validate(f, t) == IF exists(f, t.src) THEN "return" ELSE "FileNotFoundError"

\* a validation that looks at the source alone
CopyTask_validate_src(f, t) == FileTask_validate(f, t)

\* CopyTask.__validate__, which MoveTask inherits: FileTask.__validate__,
\* then a destination that exists is an error, filecmp.cmp tells which
CopyTask_validate(f, t) ==
    IF FileTask_validate(f, t) # "return" THEN FileTask_validate(f, t)
    ELSE IF exists(f, t.dst)
         THEN IF f[t.dst] = f[t.src] THEN "FileExistsAndIsIdenticalError"
              ELSE "FileExistsError"
    ELSE "return"

\* shutil.copy(src, dst)
copy(f, src, dst) == [f EXCEPT ![dst] = f[src]]

\* shutil.move(src, dst)
move(f, src, dst) == [f EXCEPT ![dst] = f[src], ![src] = 0]

-----------------------------------------------------------------------------
(* The table *)

Row(priority, task, status, lock, parent) ==
    [priority |-> priority, task |-> task, status |-> status,
     lock |-> lock, parent |-> parent]

\* sqlite: the next _ROWID_ is the largest one in the table plus one
NewRowid(t) == IF DOMAIN t = {} THEN 1 ELSE Max(DOMAIN t) + 1

\* UNIQUE(task, status): would row oid with this status collide with another row
Conflict(t, oid, status) ==
    /\ oid \in DOMAIN t
    /\ \E o \in DOMAIN t : o # oid /\ t[o].task = t[oid].task /\ t[o].status = status

\* a put that inserts without replacing the PENDING row of the same task
put_insert(t, task, priority, parent) ==
    [o \in DOMAIN t \cup {NewRowid(t)} |->
        IF o = NewRowid(t) THEN Row(priority, to_dict(task), PENDING, NULL, parent) ELSE t[o]]

\* a put that replaces every row of the same task, whatever its status is
put_any_status(t, task, priority, parent) ==
    LET txt == to_dict(task)
        old == {o \in DOMAIN t : t[o].task = txt}
        new == NewRowid(t)
    IN  [o \in (DOMAIN t \ old) \cup {new} |->
            IF o = new THEN Row(priority, txt, PENDING, NULL, parent) ELSE t[o]]

\* TaskQueue.put: INSERT OR REPLACE (priority, task, PENDING, parent)
put(t, task, priority, parent) ==
    LET txt == to_dict(task)
        old == {o \in DOMAIN t : t[o].task = txt /\ t[o].status = PENDING}
        new == NewRowid(t)
    IN  [o \in (DOMAIN t \ old) \cup {new} |->
            IF o = new THEN Row(priority, txt, PENDING, NULL, parent) ELSE t[o]]

\* a set_status whose UPDATE to another status than ACTIVE leaves the lock
set_status_keeps_lock(t, oid, status, lock) ==
    IF oid \in DOMAIN t
    THEN [t EXCEPT ![oid] = [@ EXCEPT !.status = status,
                                      !.lock = IF status = ACTIVE THEN lock ELSE @]]
    ELSE t

\* TaskQueue.set_status: one UPDATE ... where _ROWID_ = oid; the caller
\* checks Conflict first (IntegrityError)
set_status(t, oid, status, lock) ==
    IF oid \in DOMAIN t
    THEN [t EXCEPT ![oid] = [@ EXCEPT !.status = status,
                                      !.lock = IF status = ACTIVE THEN lock ELSE NULL]]
    ELSE t

\* TaskQueue.reset_active_tasks: one UPDATE over all ACTIVE rows; it fails
\* as a whole when one of them collides with a PENDING row of the same task
ResetFails(t) == \E o \in DOMAIN t : t[o].status = ACTIVE /\ Conflict(t, o, PENDING)

reset_active_tasks(t) ==
    [o \in DOMAIN t |->
        IF t[o].status = ACTIVE THEN [t[o] EXCEPT !.status = PENDING, !.lock = NULL]
        ELSE t[o]]

\* a flush that deletes all rows, whatever status is given
flush_all(t, all, status) == <<>>

\* TaskQueue.flush: DELETE all rows (status is None), or those of one status
flush(t, all, status) ==
    [o \in {p \in DOMAIN t : ~all /\ t[p].status # status} |-> t[o]]

Count(t, status, include_children) ==
    Cardinality({o \in DOMAIN t :
        t[o].status = status /\ (include_children \/ t[o].parent = NULL)})

\* SELECT status, COUNT(1) FROM tasks [WHERE parent is NULL] GROUP BY status:
\* a pair for every status that has rows
GroupBy(t, include_children) ==
    {<<t[o].status, Count(t, t[o].status, include_children)>> :
        o \in {p \in DOMAIN t : include_children \/ t[p].parent = NULL}}

\* QueueProgress.from_list: 0 for a status that is not in the list
from_list(x) ==
    LET n(status) == IF \E el \in x : el[1] = status
                     THEN (CHOOSE el \in x : el[1] = status)[2] ELSE 0
    IN  [pending |-> n(PENDING), ok |-> n(OK), skip |-> n(SKIP),
         active |-> n(ACTIVE), fail |-> n(FAIL)]

\* a progress that counts the rows with a parent as well
progress_all(t, include_children) == from_list(GroupBy(t, TRUE))

\* TaskQueue.progress
progress(t, include_children) == from_list(GroupBy(t, include_children))

\* QueueProgress.total
total(p) == p.ok + p.pending + p.skip + p.active + p.fail

n_pending(t) == Count(t, PENDING, TRUE)

n_active(t) == Count(t, ACTIVE, TRUE)

\* The kind filter of pop: task LIKE / NOT LIKE '__type___<n>%'
Matches(txt, include, exclude) ==
    /\ include # NULL => txt.type = include
    /\ exclude # NULL => txt.type # exclude

\* pop's SELECT ... WHERE status = PENDING ... ORDER BY priority LIMIT 1:
\* the rows it may return (ties between equal priorities are not ordered)
PopSelect(t, include, exclude) ==
    LET cand == {o \in DOMAIN t : t[o].status = PENDING /\ Matches(t[o].task, include, exclude)}
    IN  {o \in cand : \A p \in cand : t[o].priority <= t[p].priority}

\* TaskQueue.peek: SELECT lock, task FROM tasks ORDER BY priority LIMIT 1,
\* the first row of the lowest priority (no row is an IndexError)
PeekSelect(t) ==
    LET low == {o \in DOMAIN t : \A p \in DOMAIN t : t[o].priority <= t[p].priority}
    IN  IF low = {} THEN {} ELSE {Min(low)}

\* TaskQueue.peek, the task it returns: that of the row, with oid = record[0],
\* which is the lock of the row
peek(t, uuid) ==
    [from_dict(t[Min(PeekSelect(t))].task, uuid) EXCEPT !.oid = t[Min(PeekSelect(t))].lock]

-----------------------------------------------------------------------------
(* Worker processes *)

\* (wrote: the UPDATE of the pop at hand has changed the status of its row)
NoProc ==
    [cls |-> "none", pc |-> "none", ip |-> FALSE, progress |-> FALSE,
     oid |-> NULL, lock |-> NULL, wrote |-> FALSE, op |-> NoTask, exc |-> ""]

\* multiprocessing.Process(target=__start_run_process, args=(ip, port, include, exclude))
NewProc(cls, ip) == [NoProc EXCEPT !.cls = cls, !.pc = "init", !.ip = ip]

\* A process that has ended: "done" (left the loop), "crashed" (uncaught
\* exception) or "terminated" (Process.terminate)
Ended(p, how) == [NoProc EXCEPT !.cls = p.cls, !.pc = how]

is_alive(p) == p.pc \notin {"none", "done", "crashed", "terminated"}

\* the arguments run() passes to the two classes of worker
task_type_include(p) == IF p.cls = "convert" THEN CONVERT ELSE NULL

task_type_exclude(p) == IF p.cls = "transfer" THEN CONVERT ELSE NULL

\* `progress.pending > 0 or progress.active > 0`, the loop condition of a worker
HasWork(t) == progress(t, FALSE).pending > 0 \/ progress(t, FALSE).active > 0

Listed == transfer_processes \cup convert_processes

\* uuid.uuid4().hex for a lock: a token no row and no process holds
LocksInUse ==
    {tasks[o].lock : o \in DOMAIN tasks} \cup {procs[w].lock : w \in Workers}

FreshLock == Min((1..(Cardinality(Oids) + MaxWorkers + 1)) \ LocksInUse)

\* uuid.uuid4().hex for a staging path
TaskUuids(t) == {t.tmpdst} \cup (IF t.src > 100 THEN {t.src - 100} ELSE {})

TextUuids(x) == TaskUuids([x EXCEPT !.src = Path(x.src), !.tmpdst = Path(x.tmpdst)])

UuidsInUse ==
    UNION {TextUuids(tasks[o].task) : o \in DOMAIN tasks}
      \cup UNION {TaskUuids(procs[w].op) : w \in Workers}

FreshUuid == Min((1..(2 * Cardinality(Oids) + 2 * MaxWorkers + 1)) \ UuidsInUse)

\* uuid.uuid4().hex for the staging path of a task a client builds: a token
\* the daemon and its workers never draw
ClientUuid == 2 * Cardinality(Oids) + 2 * MaxWorkers + 2

\* history of pop(): a row that is new, or PENDING again, has not been popped
Hist(np, t, t2) ==
    [o \in DOMAIN t2 |->
        IF o \in DOMAIN t /\ ~(t2[o].status = PENDING /\ t[o].status # PENDING)
        THEN np[o] ELSE 0]

\* StatusMessage(status, payload=...): the body of a response
StatusMessage(status, payload) == [status |-> status, payload |-> payload]

\* a response without a task as payload
NoPayload == to_dict(NoTask)

\* history: the operation, a number it reports, its outcome, and the
\* StatusMessages the daemon sent on the connection it handled
Reply(op, n, res, sent) == [op |-> op, n |-> n, res |-> res, sent |-> sent]

Last(op, n, res) == Reply(op, n, res, <<>>)

-----------------------------------------------------------------------------
(* The queue object of the daemon: the table and the process lists *)

Queue(t, ps, tp, cp) == [tasks |-> t, procs |-> ps, tp |-> tp, cp |-> cp]

ThisQueue == Queue(tasks, procs, transfer_processes, convert_processes)

\* TaskQueue.active_processes(type=None)
active_processes(q) == Cardinality({w \in q.tp \cup q.cp : is_alive(q.procs[w])})

\* TaskQueue.is_active
is_active(q) == active_processes(q) > 0

\* TaskQueue.run, first part: drop the processes that are not alive
Prune(q) ==
    LET tp == {w \in q.tp : is_alive(q.procs[w])}
        cp == {w \in q.cp : is_alive(q.procs[w])}
        ps == [w \in Workers |->
                 IF w \in (q.tp \cup q.cp) \ (tp \cup cp) THEN NoProc ELSE q.procs[w]]
    IN  Queue(q.tasks, ps, tp, cp)

FreeSlots(ps) == {w \in Workers : ps[w].cls = "none"}

\* a run() that starts a full pool next to the processes that are alive
Missing_full(q, maxt, maxc) ==
    IF n_pending(q.tasks) < 1 THEN <<0, 0>> ELSE <<maxt, maxc>>

\* the processes run() has to start to fill both lists
Missing(q, maxt, maxc) ==
    IF n_pending(q.tasks) < 1 THEN <<0, 0>>
    ELSE <<IF Cardinality(Prune(q).tp) < maxt THEN maxt - Cardinality(Prune(q).tp) ELSE 0,
           IF Cardinality(Prune(q).cp) < maxc THEN maxc - Cardinality(Prune(q).cp) ELSE 0>>

\* within the bound MaxWorkers
CanRun(q, maxt, maxc) ==
    Missing(q, maxt, maxc)[1] + Missing(q, maxt, maxc)[2]
        <= Cardinality(FreeSlots(Prune(q).procs))

\* TaskQueue.run(ip, port)
run(q, maxt, maxc, ip) ==
    LET p    == Prune(q)
        free == FreeSlots(p.procs)
        nt   == Missing(q, maxt, maxc)[1]
        nc   == Missing(q, maxt, maxc)[2]
        rank(w) == Cardinality({v \in free : v < w})
        newT == {w \in free : rank(w) < nt}
        newC == {w \in free : rank(w) >= nt /\ rank(w) < nt + nc}
        ps   == [w \in Workers |->
                   IF w \in newT THEN NewProc("transfer", ip)
                   ELSE IF w \in newC THEN NewProc("convert", ip)
                   ELSE p.procs[w]]
    IN  Queue(p.tasks, ps, p.tp \cup newT, p.cp \cup newC)

\* TaskQueue.start(ip, port), which the daemon calls: ensure that the pools
\* are up
start(q, maxt, maxc, ip) == run(q, maxt, maxc, ip)

\* TaskQueue.stop, first part: p.terminate() for every listed process
Terminate(q) ==
    Queue(q.tasks,
          [w \in Workers |->
              IF w \in q.tp \cup q.cp /\ is_alive(q.procs[w])
              THEN Ended(q.procs[w], "terminated") ELSE q.procs[w]],
          q.tp, q.cp)

\* TaskQueue.stop when reset_active_tasks succeeds
stop(q) ==
    Queue(reset_active_tasks(q.tasks), Terminate(q).procs, q.tp, q.cp)

\* QopDaemon.listen, on every request: rebalance the pool
Rebalance(q, maxt, maxc) ==
    IF ~is_active(q) THEN q
    ELSE IF Cardinality(q.cp) < maxc \/ Cardinality(q.tp) < maxt
         THEN start(q, maxt, maxc, FALSE)
    ELSE IF Cardinality(q.cp) > maxc \/ Cardinality(q.tp) > maxt
         THEN start(stop(q), maxt, maxc, FALSE)
    ELSE q

CanRebalance(q, maxt, maxc) ==
    is_active(q) /\ (Cardinality(q.cp) < maxc \/ Cardinality(q.tp) < maxt)
        => CanRun(q, maxt, maxc)

\* the queue after the pool was rebalanced for the request at hand
Accepted == Rebalance(ThisQueue, max_transfer_processes, max_convert_processes)

\* write a queue value back to the variables
Commit(q) ==
    /\ tasks' = q.tasks
    /\ npop' = Hist(npop, tasks, q.tasks)
    /\ procs' = q.procs
    /\ transfer_processes' = q.tp
    /\ convert_processes' = q.cp

\* what no step of the daemon or of a worker changes: the configuration of
\* the daemon, and what a client holds
Config == <<max_transfer_processes, max_convert_processes, persist_queue, client, files>>

-----------------------------------------------------------------------------
(* A worker process: TaskQueue.__start_run_process *)

\* the process w ends; a process no list refers to any more is forgotten
End(w, how) ==
    procs' = [procs EXCEPT ![w] = IF w \in Listed THEN Ended(@, how) ELSE NoProc]

\* a worker that gives up where the code has `sleep(1); continue`
Loop_break(w) == End(w, "done")

\* back to the head of the loop (also: `sleep(1); continue`)
Loop(w) ==
    procs' = [procs EXCEPT ![w] = [@ EXCEPT !.pc = "while", !.oid = NULL, !.lock = NULL,
                                            !.wrote = FALSE, !.op = NoTask, !.exc = ""]]

Goto(w, pc) == procs' = [procs EXCEPT ![w].pc = pc]

\* an exception is raised inside `try: op.start() ...`: on to the except block
Raise(w, exc) == procs' = [procs EXCEPT ![w] = [@ EXCEPT !.pc = "set_fail", !.exc = exc]]

Quiet == UNCHANGED <<transfer_processes, convert_processes, Config, daemon, events, scen>>

Step == last' = Last("step", 0, "")

\* progress = self.progress(), before the loop
WInit(w) ==
    /\ procs[w].pc = "init"
    /\ procs' = [procs EXCEPT ![w] = [@ EXCEPT !.pc = "while", !.progress = HasWork(tasks)]]
    /\ Step /\ Quiet /\ UNCHANGED <<tasks, npop>>

\* while progress.pending > 0 or progress.active > 0: progress = self.progress()
WWhile(w) ==
    /\ procs[w].pc = "while"
    /\ IF procs[w].progress
       THEN procs' = [procs EXCEPT ![w] =
                [@ EXCEPT !.pc = IF procs[w].ip THEN "live" ELSE "select",
                          !.progress = HasWork(tasks)]]
       ELSE End(w, "done")
    /\ Step /\ Quiet /\ UNCHANGED <<tasks, npop>>

\* _utils.is_daemon_active(ip, port): a connect to the port succeeds
is_daemon_active == daemon \in {"Listening", "Stopping"}

\* if _utils.is_daemon_active(ip, port) is False: break
WLive(w) ==
    /\ procs[w].pc = "live"
    /\ IF is_daemon_active THEN Goto(w, "select") ELSE End(w, "done")
    /\ Step /\ Quiet /\ UNCHANGED <<tasks, npop>>

\* pop: the SELECT; no row is an IndexError, which the worker swallows
WSelect(w) ==
    /\ procs[w].pc = "select"
    /\ LET sel == PopSelect(tasks, task_type_include(procs[w]), task_type_exclude(procs[w]))
       IN  IF sel = {} THEN Loop(w)
           ELSE \E o \in sel :
                  procs' = [procs EXCEPT ![w] =
                              [@ EXCEPT !.pc = "update", !.oid = o, !.lock = FreshLock]]
    /\ Step /\ Quiet /\ UNCHANGED <<tasks, npop>>

\* pop: self.set_status(oid, Status.ACTIVE, lock)
WUpdate(w) ==
    /\ procs[w].pc = "update"
    /\ IF Conflict(tasks, procs[w].oid, ACTIVE)
       THEN Loop(w) /\ UNCHANGED <<tasks, npop>>
       ELSE /\ tasks' = set_status(tasks, procs[w].oid, ACTIVE, procs[w].lock)
            /\ npop' = Hist(npop, tasks, tasks')
            /\ procs' = [procs EXCEPT ![w] =
                  [@ EXCEPT !.pc = "reread",
                            !.wrote = /\ procs[w].oid \in DOMAIN tasks
                                      /\ tasks[procs[w].oid].status # ACTIVE]]
    /\ Step /\ Quiet

\* pop: re-read the row, compare the lock, build the task
WReread(w) ==
    /\ procs[w].pc = "reread"
    /\ IF procs[w].oid \notin DOMAIN tasks \/ tasks[procs[w].oid].lock # procs[w].lock
       THEN Loop(w) /\ Step /\ UNCHANGED npop
       ELSE /\ procs' = [procs EXCEPT ![w] =
                  [@ EXCEPT !.pc = "start", !.lock = NULL, !.wrote = FALSE,
                            !.op = [from_dict(tasks[procs[w].oid].task, FreshUuid)
                                       EXCEPT !.oid = procs[w].oid]]]
            /\ npop' = [npop EXCEPT ![procs[w].oid] = IF @ < 2 THEN @ + 1 ELSE @]
            /\ Step
    /\ Quiet /\ UNCHANGED tasks

\* the skip conditions FileExistsAndIsIdenticalError and
\* FileExistsAndCannotBeComparedError
SkipError == "FileExistsAndShouldBeSkippedError"

\* CopyTask.__validate__ and SimpleConvertTask.__validate__, by the state of
\* the file system: pass, skip condition (dst exists and is identical, or
\* cannot be compared), or another error (src is missing, dst differs)
validate_file == {"return", SkipError, "Exception"}

\* Converter.run(src, dst): it returns or raises
converter_run == {"return", "Exception"}

\* what op.start() can do: return, or raise a skip condition or another error
Outcomes(op) ==
    CASE op.type \in {ECHO, SLEEP} -> {"return"}
      [] op.type = T_FAIL          -> {"Exception"}
      [] op.type = CONVERT         -> (validate_file \ {"return"}) \cup converter_run
      [] OTHER                     -> validate_file

\* op.start()
WStart(w) ==
    /\ procs[w].pc = "start"
    /\ \E r \in Outcomes(procs[w].op) : IF r = "return" THEN Goto(w, "set_ok") ELSE Raise(w, r)
    /\ Step /\ Quiet /\ UNCHANGED <<tasks, npop>>

\* self.set_status(op.oid, Status.OK)
WSetOk(w) ==
    /\ procs[w].pc = "set_ok"
    /\ IF Conflict(tasks, procs[w].oid, OK)
       THEN Raise(w, "IntegrityError") /\ UNCHANGED <<tasks, npop>>
       ELSE /\ tasks' = set_status(tasks, procs[w].oid, OK, NULL)
            /\ npop' = Hist(npop, tasks, tasks')
            /\ IF HasSpawn(procs[w].op) THEN Goto(w, "spawn")
               ELSE IF procs[w].op.parent_oid # NULL THEN Goto(w, "parent_ok")
               ELSE Loop(w)
    /\ Step /\ Quiet

\* follow_up = op.spawn(); self.put(follow_up, priority=-1, parent=op.oid)
WSpawn(w) ==
    /\ procs[w].pc = "spawn"
    /\ NewRowid(tasks) \in Oids
    /\ tasks' = put(tasks, spawn(procs[w].op), SpawnPriority, procs[w].oid)
    /\ npop' = Hist(npop, tasks, tasks')
    /\ IF procs[w].op.parent_oid # NULL THEN Goto(w, "parent_ok") ELSE Loop(w)
    /\ Step /\ Quiet

\* self.set_status(op.parent_oid, Status.OK)
WParentOk(w) ==
    /\ procs[w].pc = "parent_ok"
    /\ IF Conflict(tasks, procs[w].op.parent_oid, OK)
       THEN Raise(w, "IntegrityError") /\ UNCHANGED <<tasks, npop>>
       ELSE /\ tasks' = set_status(tasks, procs[w].op.parent_oid, OK, NULL)
            /\ npop' = Hist(npop, tasks, tasks')
            /\ Loop(w)
    /\ Step /\ Quiet

\* except: self.set_status(op.oid, Status.FAIL); an error here ends the process
WSetFail(w) ==
    /\ procs[w].pc = "set_fail"
    /\ IF Conflict(tasks, procs[w].oid, FAIL)
       THEN /\ End(w, "crashed")
            /\ Step
            /\ UNCHANGED <<tasks, npop>>
       ELSE /\ tasks' = set_status(tasks, procs[w].oid, FAIL, NULL)
            /\ npop' = Hist(npop, tasks, tasks')
            /\ IF procs[w].op.parent_oid # NULL THEN Goto(w, "parent_fail") ELSE Loop(w)
            /\ Step
    /\ Quiet

\* except: self.set_status(op.parent_oid, Status.FAIL)
WParentFail(w) ==
    /\ procs[w].pc = "parent_fail"
    /\ IF Conflict(tasks, procs[w].op.parent_oid, FAIL)
       THEN /\ End(w, "crashed")
            /\ Step
            /\ UNCHANGED <<tasks, npop>>
       ELSE /\ tasks' = set_status(tasks, procs[w].op.parent_oid, FAIL, NULL)
            /\ npop' = Hist(npop, tasks, tasks')
            /\ Loop(w)
            /\ Step
    /\ Quiet

Worker(w) ==
    \/ WInit(w) \/ WWhile(w) \/ WLive(w) \/ WSelect(w) \/ WUpdate(w) \/ WReread(w)
    \/ WStart(w) \/ WSetOk(w) \/ WSpawn(w) \/ WParentOk(w) \/ WSetFail(w)
    \/ WParentFail(w)

-----------------------------------------------------------------------------
(* Clients of the queue and the daemon's request handlers.  A handler is  *)
(* one step: the rebalancing of the pool, then the command.               *)

\* the task dicts a client sends as QUEUE_PUT payload
Payloads == {to_dict(EchoTask(1)), to_dict(FailTask), to_dict(ConvertTask(1, 2, CopyConverter(FALSE), ClientUuid))}

\* tsk.__validate__() in the daemon and the status it answers with:
\* Task.__validate__ passes; a file task depends on the file system
Validate(tsk) ==
    IF tsk.type \in {ECHO, SLEEP, T_FAIL} THEN {"OK"}
    ELSE {CASE v = "return" -> "OK" [] v = SkipError -> "SKIP" [] OTHER -> "FAIL" : v \in validate_file}

\* Status of an answer
StatusOf(res) == CASE res = "OK" -> OK [] res = "SKIP" -> SKIP [] OTHER -> FAIL

\* QUEUE_PUT: tsk.__validate__(), and self.queue.put(tsk) when it passes
put_validated(q, tsk, v) ==
    IF v = "OK" THEN Queue(put(q.tasks, tsk, DefaultPriority, NULL), q.procs, q.tp, q.cp) ELSE q

\* does put(task) find a PENDING row of the same text
Replaces(t, task) == \E o \in DOMAIN t : t[o].task = to_dict(task) /\ t[o].status = PENDING

Listening == daemon = "Listening"

\* an error that escapes the handler: nothing is sent, the daemon ends
Uncaught(sent) == [daemon |-> "Dead", sent |-> sent]

\* the `except:` around the handler of a request: the error is answered
\* with a FAIL StatusMessage and the accept loop goes on
Caught(sent) == [daemon |-> "Listening", sent |-> sent \o <<StatusMessage(FAIL, NoPayload)>>]

\* requests that raise in the handler: bytes that are no message
\* (Message.from_bytes raises), a command code that is not known, and
\* DAEMON_START (NotImplementedError)
BadRequests == {"unparsable", "unknown command", "DAEMON_START"}

BadRequest(kind) ==
    /\ Listening
    /\ CanRebalance(ThisQueue, max_transfer_processes, max_convert_processes)
    /\ \E q \in {Accepted} : Commit(q)
    /\ daemon' = Caught(<<>>).daemon
    /\ last' = Reply(kind, 0, "FAIL", Caught(<<>>).sent)
    /\ UNCHANGED Config

\* QUEUE_PUT
QueuePut(payload) ==
    /\ Listening
    /\ CanRebalance(ThisQueue, max_transfer_processes, max_convert_processes)
    /\ \E q \in {Accepted}, tsk \in {from_dict(payload, FreshUuid)} :
         \E v \in Validate(tsk) :
           /\ Commit(put_validated(q, tsk, v))
           /\ last' = Reply("QUEUE_PUT", IF v = "OK" THEN NewRowid(tasks) ELSE 0,
                            IF v = "OK" /\ Replaces(tasks, tsk) THEN "OK replaced" ELSE v,
                            <<StatusMessage(StatusOf(v), to_dict(tsk))>>)
    /\ UNCHANGED <<Config, daemon>>

\* QUEUE_START
QueueStart ==
    /\ Listening
    /\ CanRebalance(ThisQueue, max_transfer_processes, max_convert_processes)
    /\ \E q \in {Accepted} :
         /\ CanRun(q, max_transfer_processes, max_convert_processes)
         /\ \E r \in {start(q, max_transfer_processes, max_convert_processes, TRUE)} : Commit(r)
    /\ last' = Reply("QUEUE_START", 0, "OK", <<StatusMessage(OK, NoPayload)>>)
    /\ UNCHANGED <<Config, daemon>>

\* QUEUE_STOP
QueueStop ==
    /\ Listening
    /\ CanRebalance(ThisQueue, max_transfer_processes, max_convert_processes)
    /\ \E q \in {Accepted} :
         IF active_processes(q) > 0
         THEN IF ResetFails(q.tasks)
              THEN /\ Commit(Terminate(q))
                   /\ last' = Reply("QUEUE_STOP", 0, "FAIL", Caught(<<>>).sent)
              ELSE /\ Commit(stop(q))
                   /\ last' = Reply("QUEUE_STOP", n_active(q.tasks), "OK",
                                    <<StatusMessage(OK, NoPayload)>>)
         ELSE /\ Commit(q)
              /\ last' = Reply("QUEUE_STOP", 0, "SKIP", <<StatusMessage(SKIP, NoPayload)>>)
    /\ daemon' = IF active_processes(Accepted) > 0 /\ ResetFails(tasks)
                 THEN Caught(<<>>).daemon ELSE daemon
    /\ UNCHANGED Config

\* QUEUE_FLUSH_ALL and QUEUE_FLUSH_PENDING
QueueFlush(all) ==
    /\ Listening
    /\ CanRebalance(ThisQueue, max_transfer_processes, max_convert_processes)
    /\ \E q \in {Accepted} :
         Commit(Queue(flush(q.tasks, all, PENDING), q.procs, q.tp, q.cp))
    /\ last' = Reply(IF all THEN "QUEUE_FLUSH_ALL" ELSE "QUEUE_FLUSH_PENDING",
                     Cardinality(DOMAIN tasks) - Cardinality(DOMAIN tasks'), "OK",
                     <<StatusMessage(OK, NoPayload)>>)
    /\ UNCHANGED <<Config, daemon>>

\* a connection that sends nothing (is_daemon_active of a worker or of a
\* client): the pool is rebalanced, `if not req: continue`
EmptyRequest ==
    /\ Listening
    /\ CanRebalance(ThisQueue, max_transfer_processes, max_convert_processes)
    /\ \E q \in {Accepted} : Commit(q)
    /\ last' = Reply("empty", 0, "", <<>>)
    /\ UNCHANGED <<Config, daemon, events, scen>>

\* DAEMON_STOP, first statement: the answer OK
DaemonStopAnswer ==
    /\ Listening
    /\ CanRebalance(ThisQueue, max_transfer_processes, max_convert_processes)
    /\ \E q \in {Accepted} : Commit(q)
    /\ daemon' = "Stopping"
    /\ last' = Reply("DAEMON_STOP", 0, "OK", <<StatusMessage(OK, NoPayload)>>)
    /\ UNCHANGED Config

\* QopDaemon.close(): socket.shutdown and socket.close; on a socket that is
\* closed already, shutdown raises OSError (bad file descriptor)
close(d) == IF d \in {"Closed", "Exited"} THEN "OSError" ELSE "closed"

\* DAEMON_STOP, the rest: self.queue.stop(); client.close(); self.close(); break
DaemonStopping ==
    /\ daemon = "Stopping"
    /\ \E q \in {ThisQueue} :
         IF ResetFails(q.tasks)
         THEN /\ Commit(Terminate(q))
              /\ daemon' = Caught(<<StatusMessage(OK, NoPayload)>>).daemon
              /\ last' = Reply("DAEMON_STOP", 0, "FAIL", Caught(<<StatusMessage(OK, NoPayload)>>).sent)
         ELSE /\ Commit(stop(q))
              /\ daemon' = "Closed"
              /\ last' = Reply("DAEMON_STOP", n_active(q.tasks), close(daemon),
                               <<StatusMessage(OK, NoPayload)>>)
    /\ UNCHANGED <<Config, events, scen>>

\* QopDaemon.__exit__, when listen has returned or was interrupted:
\* self.queue.stop(); try: self.close() except: pass; unlink the store
\* unless persist_queue.  last.n tells whether the store was unlinked,
\* last.res what close() did (when stop() raised, close() is not reached)
DaemonExit ==
    /\ daemon \in {"Listening", "Closed"}
    /\ daemon' = "Exited"
    /\ \E q \in {ThisQueue} :
         IF ResetFails(q.tasks)
         THEN /\ Commit(Terminate(q))
              /\ last' = Last("__exit__", 0, "IntegrityError")
         ELSE /\ Commit(Queue(IF persist_queue THEN stop(q).tasks ELSE <<>>,
                              stop(q).procs, q.tp, q.cp))
              /\ last' = Last("__exit__", IF persist_queue THEN 0 ELSE 1, close(daemon))
    /\ UNCHANGED Config

\* the daemon process is killed: its workers live on, its lists are gone
DaemonKill ==
    /\ Listening
    /\ daemon' = "Dead"
    /\ procs' = [w \in Workers |-> IF is_alive(procs[w]) THEN procs[w] ELSE NoProc]
    /\ transfer_processes' = {}
    /\ convert_processes' = {}
    /\ last' = Last("kill", 0, "")
    /\ UNCHANGED <<tasks, npop, Config>>

\* QopDaemon.__init__ on the existing store: new_queue, reset_active_tasks
DaemonInit ==
    /\ daemon = "Dead"
    /\ IF ResetFails(tasks)
       THEN /\ last' = Last("__init__", 0, "raise")
            /\ UNCHANGED <<tasks, npop, daemon>>
       ELSE /\ tasks' = reset_active_tasks(tasks)
            /\ npop' = Hist(npop, tasks, tasks')
            /\ daemon' = "Constructed"
            /\ last' = Last("__init__", n_active(tasks), "OK")
    /\ UNCHANGED <<procs, transfer_processes, convert_processes, Config>>

\* QopDaemon.__enter__: bind
DaemonEnter ==
    /\ daemon = "Constructed"
    /\ daemon' = "Bound"
    /\ last' = Last("__enter__", 0, "")
    /\ UNCHANGED <<tasks, npop, procs, transfer_processes, convert_processes, Config>>

\* QopDaemon.listen, first statement: self._socket.listen(10)
DaemonListen ==
    /\ daemon = "Bound"
    /\ daemon' = "Listening"
    /\ last' = Last("listen", 0, "")
    /\ UNCHANGED <<tasks, npop, procs, transfer_processes, convert_processes, Config>>

\* one more request or daemon event, outside of the restart scenario
Event == scen = 0 /\ events < MaxEvents /\ events' = events + 1 /\ UNCHANGED scen

-----------------------------------------------------------------------------
(* Spec: a daemon on a new store, on a host with two cpus (new_queue:     *)
(* one transfer worker, cpu_count() - 1 = 1 convert worker), its clients  *)
(* and its workers.  The daemon may be killed and constructed again.      *)

\* a client with the task it built, at a stage of the round trip
Client(task, stage) == [task |-> task, stage |-> stage, dict |-> to_dict(NoTask), copy |-> NoTask]

InitDaemon(t, maxt, maxc, persist, state) ==
    /\ tasks = t
    /\ npop = [o \in DOMAIN t |-> 0]
    /\ procs = [w \in Workers |-> NoProc]
    /\ transfer_processes = {}
    /\ convert_processes = {}
    /\ max_transfer_processes = maxt
    /\ max_convert_processes = maxc
    /\ persist_queue = persist
    /\ daemon = state
    /\ last = Last("init", 0, "")
    /\ events = 0
    /\ scen = 0
    /\ client = Client(NoTask, "")
    /\ files = NoFiles

\* a listening daemon with the default persist_queue=False
InitQueue(t, maxt, maxc) == InitDaemon(t, maxt, maxc, FALSE, "Listening")

Init == InitQueue(<<>>, 1, 1)

ClientPut == \E x \in Payloads : QueuePut(x) /\ Event

ClientStart == QueueStart /\ Event

ClientStop == QueueStop /\ Event

ClientFlush == \E all \in BOOLEAN : QueueFlush(all) /\ Event

Kill == DaemonKill /\ Event

\* a killed daemon is constructed again: with QopDaemon(...) as d: d.listen()
Restart ==
    /\ DaemonInit \/ DaemonEnter \/ DaemonListen
    /\ scen = 0
    /\ UNCHANGED <<events, scen>>

Workers_ == \E w \in Workers : Worker(w)

Next ==
    \/ ClientPut
    \/ ClientStart
    \/ ClientStop
    \/ ClientFlush
    \/ EmptyRequest
    \/ Kill
    \/ Restart
    \/ Workers_

Spec == Init /\ [][Next]_vars

\* C3: in every reachable state, a row's status is ACTIVE if and only if
\* its lock is not NULL
C3_ActiveIffLock ==
    \A o \in DOMAIN tasks : (tasks[o].status = ACTIVE) <=> (tasks[o].lock # NULL)

\* C3, witness: one row is ACTIVE under a lock while another row, popped
\* before, has got its terminal status
C3_Witness ==
    \E o, p \in DOMAIN tasks :
        /\ tasks[o].status = ACTIVE /\ tasks[o].lock # NULL
        /\ tasks[p].status \in Terminal /\ npop[p] > 0

\* C4: the Move a Convert task spawns is inserted while the row of the
\* Convert task is ACTIVE
C4_ParentActiveAtSpawn ==
    [][\A w \in Workers :
          WSpawn(w) => /\ procs[w].oid \in DOMAIN tasks
                       /\ tasks[procs[w].oid].status = ACTIVE]_vars

\* C5: a row with a parent that has a terminal status has the status of
\* its parent, once no worker is about to write the parent's status
C5_ChildParentAgree ==
    (\A w \in Workers : procs[w].pc \notin {"parent_ok", "parent_fail"})
        => \A o \in DOMAIN tasks :
              (/\ tasks[o].parent # NULL
               /\ tasks[o].parent \in DOMAIN tasks
               /\ tasks[o].status \in Terminal)
                  => tasks[tasks[o].parent].status = tasks[o].status

\* C8: no two rows share (task text, status), and a QUEUE_PUT that the
\* daemon accepts leaves exactly one PENDING row of the task's text; when
\* a PENDING row of that text existed, the number of rows does not grow
C8_PutReplaces ==
    /\ [](\A o, p \in DOMAIN tasks :
            o # p => ~(tasks[o].task = tasks[p].task /\ tasks[o].status = tasks[p].status))
    /\ [][\A x \in Payloads :
            QueuePut(x) /\ last'.n # 0 =>
               LET tsk == from_dict(x, FreshUuid)
                   now == {o \in DOMAIN tasks' : /\ tasks'[o].task = to_dict(tsk)
                                                /\ tasks'[o].status = PENDING}
               IN  /\ Cardinality(now) = 1
                   /\ Replaces(tasks, tsk)
                         => Cardinality(DOMAIN tasks') = Cardinality(DOMAIN tasks)]_vars

\* C8, witness: a QUEUE_PUT has replaced the PENDING row of the same task
C8_Witness == last.op = "QUEUE_PUT" /\ last.res = "OK replaced"

\* C12: when the task a worker runs raises a skip condition, the worker
\* sets the status of the row to SKIP; on every other error it sets FAIL
C12_SkipNotFail ==
    [][\A w \in Workers :
          WSetFail(w) /\ procs[w].oid \in DOMAIN tasks /\ tasks' # tasks =>
             tasks'[procs[w].oid].status = IF procs[w].exc = SkipError THEN SKIP ELSE FAIL]_vars

\* C13: QUEUE_PUT validates the task before it inserts it.  When validation
\* reports a skip condition the answer is SKIP, on another error FAIL, and
\* in both cases the table is unchanged; when validation passes, the answer
\* is OK with the task the client sent as payload, and exactly one PENDING
\* row of that task is inserted
C13_PutValidates ==
    [][\A x \in Payloads :
          QueuePut(x) =>
             /\ Len(last'.sent) = 1
             /\ last'.sent[1].status \in {SKIP, FAIL} => tasks' = tasks
             /\ last'.sent[1].status = OK =>
                   /\ last'.sent[1].payload = x
                   /\ Cardinality({o \in DOMAIN tasks' : /\ tasks'[o].task = x
                                                          /\ tasks'[o].status = PENDING}) = 1
                   /\ DOMAIN tasks' \ DOMAIN tasks = {NewRowid(tasks)}]_vars

\* C14: after QUEUE_FLUSH_ALL the table is empty (progress total = 0);
\* QUEUE_FLUSH_PENDING deletes exactly the PENDING rows and leaves every
\* other row unchanged
C14_Flush ==
    [][/\ QueueFlush(TRUE) => tasks' = <<>> /\ total(progress(tasks', TRUE)) = 0
       /\ QueueFlush(FALSE) =>
             /\ DOMAIN tasks' = {o \in DOMAIN tasks : tasks[o].status # PENDING}
             /\ \A o \in DOMAIN tasks' : tasks'[o] = tasks[o]]_vars

\* C14, witness: QUEUE_FLUSH_PENDING has deleted rows and has left an ACTIVE
\* row and a row with a terminal status
C14_Witness ==
    /\ last.op = "QUEUE_FLUSH_PENDING" /\ last.n > 0
    /\ \E o, p \in DOMAIN tasks : tasks[o].status = ACTIVE /\ tasks[p].status \in Terminal

\* C24: progress() reports for every status the number of rows with NULL
\* parent that have it, and total is the sum of the five counts: rows with
\* a parent (the Moves that Convert tasks spawn) are not counted, a Convert
\* and its Move count as one task; with include_children all rows count
C24_Progress ==
    \A include_children \in BOOLEAN :
       LET p == progress(tasks, include_children)
           rows(status) == {o \in DOMAIN tasks : /\ tasks[o].status = status
                                                  /\ (include_children \/ tasks[o].parent = NULL)}
       IN  /\ p.pending = Cardinality(rows(PENDING))
           /\ p.ok = Cardinality(rows(OK))
           /\ p.skip = Cardinality(rows(SKIP))
           /\ p.active = Cardinality(rows(ACTIVE))
           /\ p.fail = Cardinality(rows(FAIL))
           /\ total(p) = p.pending + p.ok + p.skip + p.active + p.fail
           /\ total(p) = Cardinality({o \in DOMAIN tasks :
                                         include_children \/ tasks[o].parent = NULL})

\* C24, witness: a Convert row that is OK and its Move that is PENDING, and
\* the Move counts with include_children only
C24_Witness ==
    /\ \E o, c \in DOMAIN tasks :
          /\ tasks[c].parent = o /\ tasks[c].status = PENDING
          /\ tasks[o].task.type = CONVERT /\ tasks[o].status = OK
    /\ progress(tasks, FALSE).pending = 0
    /\ progress(tasks, TRUE).pending = 1
    /\ total(progress(tasks, FALSE)) = 2

\* C10: the row pop() returns is ACTIVE afterwards, and the task it
\* returns equals the task that was put (except for oid)
C10_PopReturnsPut ==
    [][\A w \in Workers :
          WReread(w) /\ procs'[w].pc = "start" =>
             /\ tasks'[procs[w].oid].status = ACTIVE
             /\ to_dict([procs'[w].op EXCEPT !.oid = NULL]) = tasks[procs[w].oid].task]_vars

-----------------------------------------------------------------------------
(* PersistedSpec: the daemon is constructed on the store an earlier run   *)
(* left behind: a Fail task that has failed, the same task queued again,  *)
(* and a queued Convert task; the clients put tasks that touch no file    *)

Persisted ==
    LET t1 == put(<<>>, FailTask, DefaultPriority, NULL)
        t2 == set_status(t1, NewRowid(<<>>), FAIL, NULL)
        t3 == put(t2, FailTask, DefaultPriority, NULL)
    IN  put(t3, ConvertTask(1, 2, CopyConverter(FALSE), 1), DefaultPriority, NULL)

PersistedInit == InitQueue(Persisted, 1, 1)

PersistedPut == \E x \in {to_dict(EchoTask(1)), to_dict(FailTask)} : QueuePut(x) /\ Event

PersistedNext ==
    \/ PersistedPut
    \/ ClientStart
    \/ EmptyRequest
    \/ Kill
    \/ Restart
    \/ Workers_

PersistedSpec == PersistedInit /\ [][PersistedNext]_vars

\* C6: the number of ACTIVE rows never exceeds
\* max_transfer_processes + max_convert_processes
C6_ActiveBound == n_active(tasks) <= max_transfer_processes + max_convert_processes

\* C7: constructing the daemon on a store that an earlier run left behind
\* gives a daemon on a store without ACTIVE rows: the rows that were ACTIVE
\* are PENDING with NULL lock, the other rows are unchanged
C7_RestartResets ==
    [][DaemonInit =>
          /\ daemon' = "Constructed"
          /\ DOMAIN tasks' = DOMAIN tasks
          /\ \A o \in DOMAIN tasks :
                tasks'[o] = IF tasks[o].status = ACTIVE
                            THEN [tasks[o] EXCEPT !.status = PENDING, !.lock = NULL]
                            ELSE tasks[o]]_vars

\* C27: a request that finds the queue active with pending work leaves both
\* process lists filled up to their maximum; after a QUEUE_START with
\* pending work the alive transfer workers are max_transfer_processes and
\* the alive convert workers max_convert_processes; and in every state the
\* alive workers of a class are no more than the maximum of the class
C27_PoolBound ==
    /\ [][((PersistedPut \/ ClientStart \/ EmptyRequest)
              /\ is_active(ThisQueue) /\ n_pending(tasks) >= 1)
             => /\ Cardinality(transfer_processes') = max_transfer_processes
                /\ Cardinality(convert_processes') = max_convert_processes]_vars
    /\ [][(ClientStart /\ n_pending(tasks') >= 1)
             => LET alive(cls) == {w \in Workers : is_alive(procs'[w]) /\ procs'[w].cls = cls}
                IN  /\ Cardinality(alive("transfer")) = max_transfer_processes
                    /\ Cardinality(alive("convert")) = max_convert_processes]_vars
    /\ [](LET alive(cls) == {w \in Workers : is_alive(procs[w]) /\ procs[w].cls = cls}
          IN  /\ Cardinality(alive("transfer")) <= max_transfer_processes
              /\ Cardinality(alive("convert")) <= max_convert_processes)

C32_WorkerSurvives ==
    /\ [][\A w \in Workers :
             (Worker(w) /\ is_alive(procs[w]) /\ ~is_alive(procs'[w]))
                => procs[w].pc \in {"while", "live"} /\ procs[w].oid = NULL]_vars
    /\ [][\A w \in Workers :
             (WSetFail(w) /\ procs[w].oid \in DOMAIN tasks)
                => tasks'[procs[w].oid].status \in Terminal]_vars

-----------------------------------------------------------------------------
(* RaceSpec: the same store on a host with three cpus (two convert        *)
(* workers); the clients only start the queue                             *)

RaceInit == InitQueue(Persisted, 1, 2)

RaceNext ==
    \/ ClientStart
    \/ EmptyRequest
    \/ Workers_

RaceSpec == RaceInit /\ [][RaceNext]_vars

\* C1: no row is returned by two pop() calls unless it became PENDING
\* again in between
C1_PopOnce == \A o \in DOMAIN tasks : npop[o] <= 1

\* C26: the step that follows a Convert task's successful run leaves exactly
\* one row with the Convert row as parent, a PENDING Move of priority -1
\* from the Convert's tmpdst to its dst; a transfer worker selects a row
\* of priority -1 with a parent while such a row is PENDING; and a worker
\* step inserts a row only as the spawn of a Convert task
C26_SpawnOneMove ==
    /\ [][\A w \in Workers :
             WSpawn(w) =>
                LET oid == procs[w].oid
                    op == procs[w].op
                    kids == {c \in DOMAIN tasks' : tasks'[c].parent = oid}
                IN  /\ Cardinality(kids) = 1
                    /\ \A c \in kids :
                          tasks'[c] = Row(-1, to_dict(MoveTask(Staged(op.tmpdst), op.dst, oid)),
                                          PENDING, NULL, oid)]_vars
    /\ [][\A w \in Workers :
             (/\ WSelect(w)
              /\ procs[w].cls = "transfer"
              /\ procs'[w].oid # NULL
              /\ \E c \in DOMAIN tasks : tasks[c].parent # NULL /\ tasks[c].status = PENDING)
                => /\ tasks[procs'[w].oid].parent # NULL
                   /\ tasks[procs'[w].oid].priority = -1]_vars
    /\ [][\A w \in Workers :
             (Worker(w) /\ DOMAIN tasks' \ DOMAIN tasks # {})
                => procs[w].pc = "spawn" /\ procs[w].op.type = CONVERT]_vars

C34_TerminalStays ==
    /\ [][\A o \in DOMAIN tasks :
             (tasks[o].status \in Terminal /\ o \in DOMAIN tasks')
                => tasks'[o].status \in Terminal]_vars
    /\ [][\A w \in Workers :
             (WUpdate(w) /\ tasks' # tasks) => tasks[procs[w].oid].status = PENDING]_vars
    /\ [][\A w \in Workers :
             (WReread(w) /\ procs'[w].pc = "start") => npop[procs[w].oid] = 0]_vars
    /\ [][(QueueStop \/ DaemonStopping \/ DaemonExit \/ DaemonInit) =>
             \A o \in DOMAIN tasks \cap DOMAIN tasks' :
                tasks'[o].status # tasks[o].status
                   => tasks[o].status = ACTIVE /\ tasks'[o].status = PENDING]_vars

-----------------------------------------------------------------------------
(* ServeSpec: the program qopd on the store of the earlier run, with or   *)
(* without persist_queue: `with QopDaemon(...) as qopd: qopd.listen()`.   *)
(* The clients put tasks that touch no file, start and stop the queue,    *)
(* send requests that fail and DAEMON_STOP; the daemon may be interrupted *)

ServeInit == \E persist \in BOOLEAN : InitDaemon(Persisted, 1, 1, persist, "Constructed")

ServeNext ==
    \/ (DaemonEnter \/ DaemonListen) /\ UNCHANGED <<events, scen>>
    \/ PersistedPut
    \/ ClientStart
    \/ ClientStop
    \/ \E kind \in BadRequests : BadRequest(kind) /\ Event
    \/ EmptyRequest
    \/ DaemonStopAnswer /\ Event
    \/ DaemonStopping
    \/ DaemonExit /\ (IF Listening THEN Event ELSE UNCHANGED <<events, scen>>)
    \/ Workers_

ServeSpec == ServeInit /\ [][ServeNext]_vars

\* C15: when the daemon has handled QUEUE_STOP, every worker process is
\* terminated and every row that was ACTIVE is PENDING with NULL lock: no
\* row is ACTIVE
C15_StopResets ==
    [][QueueStop =>
          /\ \A w \in Workers : ~is_alive(procs'[w])
          /\ n_active(tasks') = 0
          /\ \A o \in DOMAIN tasks :
                tasks[o].status = ACTIVE =>
                   /\ o \in DOMAIN tasks'
                   /\ tasks'[o].status = PENDING
                   /\ tasks'[o].lock = NULL]_vars

\* C16: an error raised while the daemon handles a request (an unparsable
\* message, an unknown command code, DAEMON_START, a queue operation that
\* fails) is answered with a FAIL StatusMessage, and the daemon stays in
\* its accept loop
C16_ErrorsAnswered ==
    [][(\/ \E kind \in BadRequests : BadRequest(kind)
        \/ QueueStop /\ active_processes(Accepted) > 0 /\ ResetFails(tasks)
        \/ DaemonStopping /\ ResetFails(tasks))
          => /\ last'.sent # <<>>
             /\ last'.sent[Len(last'.sent)].status = FAIL
             /\ daemon' = "Listening"]_vars

\* C16, witness: a QUEUE_STOP whose queue operation failed has been
\* answered FAIL by a daemon that listens on
C16_Witness == last.op = "QUEUE_STOP" /\ last.res = "FAIL" /\ Listening

\* C17: on every connection the daemon accepts it sends exactly one
\* StatusMessage, whatever the request is, an empty one included
C17_OneResponse ==
    last.op \in BadRequests \cup {"empty", "QUEUE_PUT", "QUEUE_START", "QUEUE_STOP", "DAEMON_STOP"}
        => Len(last.sent) = 1

\* C18: on DAEMON_STOP the daemon answers OK, then stops all workers
\* (no row stays ACTIVE), closes its socket and leaves the accept loop: no
\* further request is handled and a connect fails; on scoped exit the store
\* is deleted if and only if the queue is not persistent
C18_DaemonStop ==
    /\ [][DaemonStopAnswer => last'.sent = <<StatusMessage(OK, NoPayload)>>]_vars
    /\ [][daemon = "Stopping" /\ daemon' # daemon =>
             /\ daemon' = "Closed"
             /\ ~is_daemon_active'
             /\ last'.sent = <<StatusMessage(OK, NoPayload)>>
             /\ \A w \in Workers : ~is_alive(procs'[w])
             /\ n_active(tasks') = 0]_vars
    /\ [][(daemon \in {"Closed", "Exited"}) => (daemon' \in {"Closed", "Exited"})]_vars
    /\ [][DaemonExit => (last'.n = 1 <=> ~persist_queue)]_vars

\* C19: the daemon only moves forward through Constructed, Bound,
\* Listening, Stopping, Closed (and the scoped exit after it), and close()
\* on a socket that is closed already raises no error
C19_Lifecycle ==
    /\ [][LET rank(d) == CASE d = "Constructed" -> 0 [] d = "Bound" -> 1
                          [] d = "Listening" -> 2 [] d = "Stopping" -> 3
                          [] d = "Closed" -> 4 [] OTHER -> 5
          IN  rank(daemon') >= rank(daemon)]_vars
    /\ [][DaemonExit => last'.res # "OSError"]_vars

-----------------------------------------------------------------------------
(* RoundTripSpec: a client builds a task of any variant, serializes it    *)
(* with to_dict and reads it back with Task.from_dict                     *)

MaxPath == 2         \* paths, messages and seconds of the tasks a client builds

\* the tasks a client can build: every variant, every field
Variants ==
    LET P == 1..MaxPath
        converters == {CopyConverter(r) : r \in BOOLEAN}
    IN  {EchoTask(m) : m \in P} \cup {SleepTask(m) : m \in P} \cup {FailTask}
          \cup {DeleteTask(a) : a \in P}
          \cup {CopyTask(a, b) : a \in P, b \in P}
          \cup {MoveTask(a, b, o) : a \in P, b \in P, o \in {NULL} \cup Oids}
          \cup {SimpleConvertTask(a, b, c) : a \in P, b \in P, c \in converters}
          \cup {ConvertTask(a, b, c, ClientUuid) : a \in P, b \in P, c \in converters}

\* what the steps of a client leave unchanged
Server ==
    <<tasks, procs, transfer_processes, convert_processes, max_transfer_processes,
      max_convert_processes, persist_queue, daemon, npop, last, events, scen, files>>

\* tsk = XTask(...)
Build ==
    /\ client.stage = ""
    /\ \E T \in Variants : client' = Client(T, "built")
    /\ UNCHANGED Server

\* x = tsk.to_dict()
Serialize ==
    /\ client.stage = "built"
    /\ client' = [client EXCEPT !.stage = "written", !.dict = to_dict(client.task)]
    /\ UNCHANGED Server

\* Task.from_dict(x)
Deserialize ==
    /\ client.stage = "written"
    /\ client' = [client EXCEPT !.stage = "read", !.copy = from_dict(client.dict, FreshUuid)]
    /\ UNCHANGED Server

RoundTripNext == Build \/ Serialize \/ Deserialize

RoundTripSpec == Init /\ [][RoundTripNext]_vars

\* C20: serialization round-trips.  For every task variant and every field,
\* the task that Task.from_dict builds from T.to_dict() equals T (__eq__
\* compares the __dict__ of the two tasks, converter and tmpdst included).
C20_RoundTrip == client.stage = "read" => client.copy = client.task

-----------------------------------------------------------------------------
(* FramingSpec: a client builds a Message, encodes it and decodes the     *)
(* bytes with Message.from_bytes.  A body is the sequence of the items of  *)
(* its dict, a header a function from keys to values; a string value is    *)
(* the number of its bytes.                                                *)

MaxBody == 2         \* items of a message body
BigHeader == 70000   \* bytes of the longest value of an extra header

Message(body, extra_headers) == [body |-> body, extra_headers |-> extra_headers]

\* json.dumps / json.loads of a body: the items between braces (-1, -2);
\* a text that was cut is no JSON (JSONDecodeError)
dumps(body) == <<-1>> \o body \o <<-2>>

IsJson(text) == Len(text) >= 2 /\ text[1] = -1 /\ text[Len(text)] = -2

loads(text) == SubSeq(text, 2, Len(text) - 1)

\* len(bytes(json.dumps(header), "utf-8")): braces, and for every key
\* `"key": value` and a separator; content-length is a number, every other
\* value a string in quotes
HeaderBytes(header) ==
    LET key == [k \in {"content-length", "content-type", "message-class", "x"} |->
                   CASE k = "content-length" -> 14 [] k = "content-type" -> 12
                     [] k = "message-class" -> 13 [] OTHER -> 1]
        value(k) == IF k = "content-length"
                    THEN (IF header[k] < 10 THEN 1 ELSE 2) ELSE header[k] + 2
        RECURSIVE sum(_)
        sum(K) == IF K = {} THEN 0
                  ELSE LET k == CHOOSE k \in K : TRUE
                       IN  key[k] + 4 + value(k) + 2 + sum(K \ {k})
    IN  sum(DOMAIN header)

\* Message.encode: the header is content-length and content-type, updated
\* with the extra headers; struct.pack("!H", len(header)) raises struct.error
\* unless the length is an unsigned 16-bit number
Header(M) ==
    [k \in {"content-length", "content-type"} \cup DOMAIN M.extra_headers |->
        IF k \in DOMAIN M.extra_headers THEN M.extra_headers[k]
        ELSE IF k = "content-length" THEN Len(dumps(M.body)) ELSE 9]

CanPack(M) == HeaderBytes(Header(M)) < 2^16

encode(M) ==
    [header_len |-> HeaderBytes(Header(M)) % 2^16, header |-> Header(M), body |-> dumps(M.body)]

\* Message.from_bytes: the body is the content-length bytes after the
\* header (all that is there, when there are less); content-length is
\* deleted from the header, the rest are the extra headers
raw_body(x) ==
    SubSeq(x.body, 1, IF x.header["content-length"] < Len(x.body)
                      THEN x.header["content-length"] ELSE Len(x.body))

from_bytes(x) ==
    Message(loads(raw_body(x)), [k \in DOMAIN x.header \ {"content-length"} |-> x.header[k]])

\* the messages a client builds: every body, with or without the extra
\* headers message-class ("StatusMessage"), content-type, content-length
\* and x (a short or a long string)
Messages ==
    LET opt(k, V) == {<< >>} \cup {[j \in {k} |-> v] : v \in V}
    IN  {Message(b, c @@ t @@ l @@ e) :
            b \in UNION {[1..n -> {1}] : n \in 0..MaxBody},
            c \in opt("message-class", {13}), t \in opt("content-type", {3}),
            l \in opt("content-length", {1, 9}), e \in opt("x", {1, BigHeader})}

\* req = Message(body, extra_headers)
MBuild ==
    /\ client.stage = ""
    /\ \E M \in Messages : client' = [Client(NoTask, "built") EXCEPT !.task = M]
    /\ UNCHANGED Server

\* x = req.encode()
Encode ==
    /\ client.stage = "built"
    /\ client' = IF CanPack(client.task)
                 THEN [client EXCEPT !.stage = "written", !.dict = encode(client.task)]
                 ELSE [client EXCEPT !.stage = "struct.error"]
    /\ UNCHANGED Server

\* Message.from_bytes(x)
Decode ==
    /\ client.stage = "written"
    /\ client' = IF IsJson(raw_body(client.dict))
                 THEN [client EXCEPT !.stage = "read", !.copy = from_bytes(client.dict)]
                 ELSE [client EXCEPT !.stage = "JSONDecodeError"]
    /\ UNCHANGED Server

FramingNext == MBuild \/ Encode \/ Decode

FramingSpec == Init /\ [][FramingNext]_vars

\* C21: message framing round-trips.  For every message M (body and extra
\* headers), Message.from_bytes(M.encode()) is a message with the body and
\* the extra headers of M, and the length of the encoded header fits in the
\* unsigned 16-bit prefix
C21_Framing ==
    /\ client.stage \in {"written", "read"} =>
          client.dict.header_len = HeaderBytes(client.dict.header)
    /\ client.stage \notin {"", "built", "written"} =>
          /\ client.stage = "read"
          /\ client.copy = client.task

-----------------------------------------------------------------------------
(* ReuseSpec: the daemon on the store of the earlier run; the clients     *)
(* start the queue, flush it and put Convert tasks                        *)

ConvertPut == QueuePut(to_dict(ConvertTask(1, 2, CopyConverter(FALSE), ClientUuid))) /\ Event

ReuseNext ==
    \/ ConvertPut
    \/ ClientStart
    \/ ClientFlush
    \/ EmptyRequest
    \/ Workers_

ReuseSpec == PersistedInit /\ [][ReuseNext]_vars

\* C11: a transfer worker never sets a Convert row ACTIVE, and a convert
\* worker never sets a row of another type ACTIVE
C11_DisjointClasses ==
    [][\A w \in Workers :
          WUpdate(w) /\ procs[w].oid \in DOMAIN tasks /\ tasks'[procs[w].oid].status = ACTIVE =>
             LET type == tasks[procs[w].oid].task.type
             IN  /\ procs[w].cls = "transfer" => type # CONVERT
                 /\ procs[w].cls = "convert" => type = CONVERT]_vars

\* C38: a step of a worker changes the status of no row but the one with
\* the _ROWID_ it popped and the one its task names as parent; the row whose
\* status it writes after the run is the row it popped, the row of the task
\* it ran; and the only row it inserts is the PENDING child Move of the
\* Convert task it has just set OK
C38_WorkerFrame ==
    /\ [][\A w \in Workers :
             Worker(w) =>
                \A o \in DOMAIN tasks \cap DOMAIN tasks' :
                   tasks'[o].status # tasks[o].status
                      => o \in {procs[w].oid, procs[w].op.parent_oid}]_vars
    /\ [][\A w \in Workers :
             ((WSetOk(w) \/ WSetFail(w)) /\ tasks' # tasks)
                => [tasks[procs[w].oid].task EXCEPT !.tmpdst = NULL]
                      = [to_dict([procs[w].op EXCEPT !.oid = NULL]) EXCEPT !.tmpdst = NULL]]_vars
    /\ [][\A w \in Workers :
             (Worker(w) /\ DOMAIN tasks' # DOMAIN tasks)
                => /\ procs[w].pc = "spawn" /\ procs[w].op.type = CONVERT
                   /\ \A o \in DOMAIN tasks' \ DOMAIN tasks :
                         /\ tasks'[o].task.type = MOVE
                         /\ tasks'[o].status = PENDING
                         /\ tasks'[o].parent = procs[w].oid]_vars

\* C36: once a flush has emptied the table, the steps of the workers leave
\* it empty: the status a worker writes for a row that is deleted changes
\* nothing, and no worker inserts a row (the child Move of a Convert that
\* was flushed while it ran)
C36_FlushedStaysEmpty ==
    [][\A w \in Workers : (Worker(w) /\ tasks = <<>>) => tasks' = <<>>]_vars

-----------------------------------------------------------------------------
(* LiveSpec: the daemon on the store of the earlier run stays alive, its  *)
(* clients keep starting the queue, and every worker process that can     *)
(* take a step eventually takes it (the operating system schedules it)    *)

KeepStarting == QueueStart /\ scen = 0 /\ UNCHANGED <<events, scen>>

LiveNext ==
    \/ KeepStarting
    \/ EmptyRequest
    \/ Workers_

LiveSpec ==
    /\ PersistedInit /\ [][LiveNext]_vars
    /\ WF_vars(KeepStarting)
    /\ \A w \in Workers : WF_vars(Worker(w))

\* C2: every row that is ever in the queue eventually has a terminal status
\* (OK, SKIP or FAIL), Moves spawned by Convert tasks included, when the
\* daemon stays alive and workers of both classes keep running.  (A PENDING
\* row that a put of the same task replaces is no longer in the queue.)
C2_EveryRowEnds ==
    \A o \in Oids :
        (o \in DOMAIN tasks) ~> (o \notin DOMAIN tasks \/ tasks[o].status \in Terminal)

-----------------------------------------------------------------------------
(* DrainSpec: the daemon on a store with queued tasks: two Echo tasks and *)
(* a Fail task, or a Convert task and two Echo tasks, or the store of the  *)
(* earlier run.  The clients keep starting the queue, and every worker     *)
(* process that can take a step eventually takes it.                       *)

Stores ==
    LET store(T) == put(put(put(<<>>, T[1], DefaultPriority, NULL),
                            T[2], DefaultPriority, NULL), T[3], DefaultPriority, NULL)
    IN  {store(<<EchoTask(1), EchoTask(2), FailTask>>),
         store(<<ConvertTask(1, 2, CopyConverter(FALSE), 1), EchoTask(1), EchoTask(2)>>),
         Persisted}

DrainInit == \E t \in Stores : InitQueue(t, 1, 1)

\* a caller that holds the queue object looks at it: q.peek()
Peek ==
    /\ client' = IF PeekSelect(tasks) = {} THEN Client(NoTask, "IndexError")
                 ELSE [Client(NoTask, "peek") EXCEPT !.copy = peek(tasks, FreshUuid)]
    /\ last' = Last("peek", IF PeekSelect(tasks) = {} THEN 0 ELSE Min(PeekSelect(tasks)), "")
    /\ UNCHANGED <<tasks, procs, transfer_processes, convert_processes, max_transfer_processes,
                   max_convert_processes, persist_queue, daemon, npop, events, scen,
                   files>>

DrainSpec ==
    /\ DrainInit /\ [][LiveNext \/ Peek]_vars
    /\ WF_vars(KeepStarting)
    /\ \A w \in Workers : WF_vars(Worker(w))

\* C22: once no row is PENDING or ACTIVE any more, every worker process
\* eventually leaves its loop and exits (active_processes() is 0, n_active
\* is 0); and the workers do not exit before their work is done: when all
\* of them have exited, every Convert task that has run has had its Move
\* executed (dst exists)
C22_WorkersExit ==
    /\ (n_pending(tasks) + n_active(tasks) = 0)
          ~> (\/ n_pending(tasks) + n_active(tasks) > 0
              \/ active_processes(ThisQueue) = 0 /\ \A w \in Workers : ~is_alive(procs[w]))
    /\ []((\A w \in Workers : ~is_alive(procs[w])) =>
            \A o \in DOMAIN tasks :
               tasks[o].task.type = CONVERT /\ tasks[o].status = OK =>
                  \E c \in DOMAIN tasks : tasks[c].parent = o /\ tasks[c].status \in Terminal)

\* C23: peek() behaves like pop() without modifying the queue: it returns
\* the task of the row that the next pop() would return (an IndexError when
\* pop() would raise one), and it changes no row
C23_PeekLikePop ==
    [][Peek =>
          /\ tasks' = tasks
          /\ client'.stage = "IndexError" <=> PopSelect(tasks, NULL, NULL) = {}
          /\ client'.stage = "peek" =>
                /\ last'.n \in PopSelect(tasks, NULL, NULL)
                /\ [client'.copy EXCEPT !.oid = NULL, !.tmpdst = NULL]
                      = [from_dict(tasks[last'.n].task, FreshUuid) EXCEPT !.tmpdst = NULL]]_vars

\* C25: a task whose run raises is marked FAIL and the worker goes on with
\* the remaining PENDING tasks: a queue that holds two Echo tasks and a Fail
\* task drains, and then progress reports ok = 2, fail = 1, pending = 0,
\* active = 0, and the daemon still answers requests
C25_FailPropagation ==
    /\ [][\A w \in Workers :
             WSetFail(w) /\ procs[w].oid \in DOMAIN tasks =>
                /\ tasks'[procs[w].oid].status = FAIL
                /\ is_alive(procs'[w])]_vars
    /\ (LET EchoEchoFail == {tasks[o].task : o \in DOMAIN tasks}
                               = {to_dict(EchoTask(1)), to_dict(EchoTask(2)), to_dict(FailTask)}
         IN  DOMAIN tasks = 1..3 /\ EchoEchoFail)
           ~> (n_pending(tasks) + n_active(tasks) = 0)
    /\ [](LET EchoEchoFail == {tasks[o].task : o \in DOMAIN tasks}
                                = {to_dict(EchoTask(1)), to_dict(EchoTask(2)), to_dict(FailTask)}
          IN  /\ DOMAIN tasks = 1..3
              /\ EchoEchoFail
              /\ n_pending(tasks) + n_active(tasks) = 0
              => /\ progress(tasks, FALSE)
                      = [pending |-> 0, ok |-> 2, skip |-> 0, active |-> 0, fail |-> 1]
                 /\ Listening)

-----------------------------------------------------------------------------
(* OnceSpec: the daemon on one of the stores of DrainSpec; the clients    *)
(* start the queue, at most MaxEvents times, and every worker process     *)
(* that can take a step eventually takes it                               *)

OnceSpec ==
    /\ DrainInit /\ [][ClientStart \/ Workers_]_vars
    /\ \A w \in Workers : WF_vars(Worker(w))

\* C33: a transfer worker does not leave its loop while a child Move is
\* PENDING or a convert worker is about to insert one (its Convert is set
\* OK, the Move is not put yet), so that a child Move that is PENDING is
\* eventually executed by the workers that run
C33_ChildMoveRuns ==
    /\ [][\A w \in Workers :
             (/\ procs[w].cls = "transfer"
              /\ procs[w].pc = "while"
              /\ WWhile(w)
              /\ ~is_alive(procs'[w]))
                => /\ \A c \in DOMAIN tasks : ~(tasks[c].parent # NULL /\ tasks[c].status = PENDING)
                   /\ \A v \in Workers : procs[v].pc # "spawn"]_vars
    /\ \A c \in Oids :
          (c \in DOMAIN tasks /\ tasks[c].parent # NULL /\ tasks[c].status = PENDING)
             ~> (c \in DOMAIN tasks /\ tasks[c].status \in Terminal)

-----------------------------------------------------------------------------
(* FilesSpec: a daemon on a new store and a file system.  Files are       *)
(* created before the first request; the clients put Copy and Move tasks  *)
(* to one destination and start the queue; the workers run the tasks on   *)
(* the file system                                                        *)

\* src.touch(), src.write_text(...): a file is created with some content
Touch ==
    /\ events = 0
    /\ \E path \in FilePaths, content \in 1..2 :
          /\ ~exists(files, path)
          /\ files' = [files EXCEPT ![path] = content]
          /\ last' = Last("touch", path, "")
    /\ UNCHANGED <<tasks, procs, transfer_processes, convert_processes, max_transfer_processes,
                   max_convert_processes, persist_queue, daemon, npop, events, scen, client>>

\* the tasks of the clients: copies and moves to the last path
FileTasks ==
    {CopyTask(src, MaxFiles) : src \in 1..(MaxFiles - 1)}
        \cup {MoveTask(src, MaxFiles, NULL) : src \in 1..(MaxFiles - 1)}

\* tsk.__validate__() in the daemon, on the file system, and the status it
\* answers with
ValidateFiles(f, tsk) ==
    CASE CopyTask_validate(f, tsk) = "return" -> "OK"
      [] CopyTask_validate(f, tsk) = "FileExistsAndIsIdenticalError" -> "SKIP"
      [] OTHER -> "FAIL"

\* QUEUE_PUT of a Copy or Move task
FilePut ==
    \E T \in FileTasks :
        /\ QueuePut(to_dict(T))
        /\ Event
        /\ last'.sent[1].status = StatusOf(ValidateFiles(files, T))

\* CopyTask.start and MoveTask.start, first statement: __validate__()
FValidate(w) ==
    /\ procs[w].pc = "start"
    /\ procs[w].op.type \in {COPY, MOVE}
    /\ IF CopyTask_validate(files, procs[w].op) = "return"
       THEN Goto(w, "write")
       ELSE Raise(w, CopyTask_validate(files, procs[w].op))
    /\ Step /\ Quiet /\ UNCHANGED <<tasks, npop>>

\* CopyTask.start and MoveTask.start, the rest: shutil.copy / shutil.move
FWrite(w) ==
    /\ procs[w].pc = "write"
    /\ IF ~exists(files, procs[w].op.src)
       THEN Raise(w, "FileNotFoundError") /\ UNCHANGED files
       ELSE /\ files' = IF procs[w].op.type = MOVE
                        THEN move(files, procs[w].op.src, procs[w].op.dst)
                        ELSE copy(files, procs[w].op.src, procs[w].op.dst)
            /\ Goto(w, "set_ok")
    /\ Step
    /\ UNCHANGED <<tasks, npop, transfer_processes, convert_processes, max_transfer_processes,
                   max_convert_processes, persist_queue, daemon, events, scen, client>>

FilesNext ==
    \/ Touch
    \/ FilePut
    \/ ClientStart
    \/ \E w \in Workers :
          \/ WInit(w) \/ WWhile(w) \/ WLive(w) \/ WSelect(w) \/ WUpdate(w) \/ WReread(w)
          \/ FValidate(w) \/ FWrite(w) \/ WSetOk(w) \/ WSetFail(w)

FilesSpec == Init /\ [][FilesNext]_vars

\* C30: a worker that starts a Copy or Move task whose destination exists
\* changes no file and goes on to the except block; that block changes no
\* file and does not leave the row OK; and a row that is FAIL stays FAIL
C30_Revalidate ==
    /\ [][\A w \in Workers :
             (FValidate(w) /\ exists(files, procs[w].op.dst))
                => files' = files /\ procs'[w].pc = "set_fail"]_vars
    /\ [][\A w \in Workers :
             (WSetFail(w) /\ procs[w].oid \in DOMAIN tasks)
                => files' = files /\ tasks'[procs[w].oid].status # OK]_vars
    /\ [][\A o \in DOMAIN tasks :
             tasks[o].status = FAIL => o \in DOMAIN tasks' /\ tasks'[o].status = FAIL]_vars

\* C30, witness: a task that wrote the destination is OK, and a worker has
\* started another task to that destination, which has raised
C30_Witness ==
    \E w \in Workers, o \in DOMAIN tasks :
        /\ procs[w].pc = "set_fail"
        /\ procs[w].op.type \in {COPY, MOVE}
        /\ procs[w].exc \in {"FileExistsError", "FileExistsAndIsIdenticalError"}
        /\ tasks[o].status = OK
        /\ tasks[o].task.dst = str(procs[w].op.dst)
        /\ exists(files, procs[w].op.dst)

-----------------------------------------------------------------------------
(* RunSpec: a caller holds the queue object on the store of the earlier   *)
(* run and calls q.run(), at most MaxEvents times; the workers it starts  *)
(* know no daemon                                                         *)

\* q.run()
RunQueue ==
    /\ CanRun(ThisQueue, max_transfer_processes, max_convert_processes)
    /\ Commit(run(ThisQueue, max_transfer_processes, max_convert_processes, FALSE))
    /\ last' = Last("run", Cardinality({w \in Workers : procs'[w].pc = "init"}), "")
    /\ Event
    /\ UNCHANGED <<Config, daemon>>

RunNext ==
    \/ RunQueue
    \/ \E w \in Workers :
          \/ WInit(w) \/ WWhile(w) \/ WSelect(w) \/ WUpdate(w) \/ WReread(w) \/ WStart(w)
          \/ WSetOk(w) \/ WSpawn(w) \/ WParentOk(w) \/ WSetFail(w) \/ WParentFail(w)

RunSpec == PersistedInit /\ [][RunNext]_vars

\* C37: run() changes no row and no process that is alive; it starts no
\* process when no row is PENDING, and otherwise it starts, for each class,
\* the number of processes that the alive processes of its list are short
\* of the maximum of the class; the alive processes stay in their lists
C37_RunStartsMissing ==
    [][RunQueue =>
          LET aliveT == {w \in transfer_processes : is_alive(procs[w])}
              aliveC == {w \in convert_processes : is_alive(procs[w])}
              started(cls) == {w \in Workers : /\ is_alive(procs'[w]) /\ ~is_alive(procs[w])
                                                /\ procs'[w].cls = cls}
              short(n, max) == IF n < max THEN max - n ELSE 0
          IN  /\ tasks' = tasks
              /\ \A w \in Workers : is_alive(procs[w]) => procs'[w] = procs[w]
              /\ aliveT \subseteq transfer_processes' /\ aliveC \subseteq convert_processes'
              /\ n_pending(tasks) < 1 => started("transfer") \cup started("convert") = {}
              /\ n_pending(tasks) >= 1 =>
                    /\ Cardinality(started("transfer"))
                          = short(Cardinality(aliveT), max_transfer_processes)
                    /\ Cardinality(started("convert"))
                          = short(Cardinality(aliveC), max_convert_processes)]_vars

\* C37, witness: a run() has started one process, for the class whose
\* process had ended, and the process of the other class, which was alive,
\* is in the middle of its task
C37_Witness ==
    /\ last.op = "run" /\ last.n = 1
    /\ \E w, v \in Workers :
          /\ procs[w].pc = "init"
          /\ procs[v].cls # procs[w].cls
          /\ procs[v].pc \in {"start", "set_ok", "spawn", "set_fail"}

-----------------------------------------------------------------------------
(* PutSpec: the daemon on the store of the earlier run and its workers; a *)
(* caller that holds the queue object puts Echo and Fail tasks with a     *)
(* priority and a parent of its choice, and the clients start the queue   *)

\* q.put(task, priority, parent)
PutAs(task, priority, parent) ==
    /\ NewRowid(tasks) \in Oids
    /\ tasks' = put(tasks, task, priority, parent)
    /\ npop' = Hist(npop, tasks, tasks')
    /\ last' = Last("put", NewRowid(tasks), IF Replaces(tasks, task) THEN "replaced" ELSE "added")
    /\ Event
    /\ UNCHANGED <<procs, transfer_processes, convert_processes, Config, daemon>>

Put ==
    \E task \in {EchoTask(1), FailTask}, priority \in {SpawnPriority, DefaultPriority},
       parent \in {NULL, 1} : PutAs(task, priority, parent)

PutNext ==
    \/ Put
    \/ ClientStart
    \/ Workers_

PutSpec == PersistedInit /\ [][PutNext]_vars

\* C35: put() leaves every row unchanged but the PENDING row of the same
\* task text: a row of that text that is ACTIVE, OK, SKIP or FAIL stays as
\* it is, one row is added, which is PENDING with the priority and the
\* parent of this put, and it is the only PENDING row of that text (the
\* PENDING row that was there is gone)
C35_PutFrame ==
    [][\A task \in {EchoTask(1), FailTask}, priority \in {SpawnPriority, DefaultPriority},
         parent \in {NULL, 1} :
          PutAs(task, priority, parent) =>
             LET same == {o \in DOMAIN tasks : tasks[o].task = to_dict(task)}
                 old  == {o \in same : tasks[o].status = PENDING}
             IN  /\ \A o \in DOMAIN tasks \ old : o \in DOMAIN tasks' /\ tasks'[o] = tasks[o]
                 /\ DOMAIN tasks' \ DOMAIN tasks = {NewRowid(tasks)}
                 /\ tasks'[NewRowid(tasks)] = Row(priority, to_dict(task), PENDING, NULL, parent)
                 /\ {o \in DOMAIN tasks' : /\ tasks'[o].task = to_dict(task)
                                            /\ tasks'[o].status = PENDING} = {NewRowid(tasks)}
                 /\ Cardinality(DOMAIN tasks') = Cardinality(DOMAIN tasks) + 1 - Cardinality(old)]_vars

\* C35, witness: a put has replaced the PENDING row of its task by a row
\* with another priority and another parent, while a row of the same text
\* with a terminal status and an ACTIVE row of another text are in the table
C35_Witness ==
    /\ last.op = "put" /\ last.res = "replaced"
    /\ tasks[last.n].priority = SpawnPriority /\ tasks[last.n].parent # NULL
    /\ \E o \in DOMAIN tasks : tasks[o].task = tasks[last.n].task /\ tasks[o].status \in Terminal
    /\ \E o \in DOMAIN tasks : tasks[o].status = ACTIVE

-----------------------------------------------------------------------------
(* FetchSpec: the daemon on the store of the earlier run, clients that    *)
(* start the queue, the workers, and a caller that holds the queue object *)
(* and looks at it with fetch                                             *)

\* SELECT ... [WHERE status IN (...)] ORDER BY priority [LIMIT n]: the rows
\* in the orders sqlite may return them (rows of equal priority are not
\* ordered); `if n:` adds the LIMIT when n is neither None nor 0
FetchSelect(t, all, status, n) ==
    LET sel == {o \in DOMAIN t : all \/ t[o].status \in status}
        k   == IF n # NULL /\ n < Cardinality(sel) THEN n ELSE Cardinality(sel)
    IN  {r \in [1..k -> sel] :
            /\ \A i, j \in 1..k : i < j => r[i] # r[j] /\ t[r[i]].priority <= t[r[j]].priority
            /\ \A o \in sel \ {r[i] : i \in 1..k} :
                  \A i \in 1..k : t[r[i]].priority <= t[o].priority}

\* TaskQueue.fetch, the list it builds from the rows (status, task) of the
\* SELECT: [{"priority": x[0], "task": json.loads(x[1])} for x in res]
fetch(t, r) == [i \in DOMAIN r |-> [priority |-> t[r[i]].status, task |-> t[r[i]].task]]

\* the status arguments of the caller: None (all), one status, a tuple
FetchArgs ==
    {[all |-> TRUE, status |-> {}], [all |-> FALSE, status |-> {PENDING}],
     [all |-> FALSE, status |-> {OK, FAIL}], [all |-> FALSE, status |-> {}]}

\* q.fetch(status, n); an empty tuple of statuses is a ValueError
FetchAs(a, n, r) ==
    /\ client' = IF ~a.all /\ a.status = {}
                 THEN [Client(NoTask, "ValueError") EXCEPT !.copy = <<>>]
                 ELSE [Client(NoTask, "fetch") EXCEPT !.copy = fetch(tasks, r)]
    /\ last' = Last("fetch", n, "")
    /\ UNCHANGED <<tasks, procs, transfer_processes, convert_processes, max_transfer_processes,
                   max_convert_processes, persist_queue, daemon, npop, events, scen,
                   files>>

Fetch == \E a \in FetchArgs, n \in 0..2 : \E r \in FetchSelect(tasks, a.all, a.status, n) : FetchAs(a, n, r)

FetchNext ==
    \/ KeepStarting
    \/ Fetch
    \/ Workers_

FetchSpec == PersistedInit /\ [][FetchNext]_vars

\* C31: fetch(status, n) changes no row; it returns the rows whose status is
\* in the given set (all rows when status is None), in ascending order of
\* priority and at most n of them; and every entry it returns carries the
\* priority and the task of its row
C31_Fetch ==
    [][\A a \in FetchArgs, n \in 0..2 :
          \A r \in FetchSelect(tasks, a.all, a.status, n) :
             (last'.op = "fetch" /\ FetchAs(a, n, r) /\ client'.stage = "fetch") =>
                /\ tasks' = tasks
                /\ n # NULL => Len(client'.copy) <= n
                /\ Len(client'.copy) = Len(r)
                /\ \A i \in DOMAIN r :
                      /\ a.all \/ tasks[r[i]].status \in a.status
                      /\ \A j \in DOMAIN r : i < j => tasks[r[i]].priority <= tasks[r[j]].priority
                      /\ client'.copy[i].priority = tasks[r[i]].priority
                      /\ client'.copy[i].task = tasks[r[i]].task]_vars

-----------------------------------------------------------------------------
(* CommitSpec: a caller commits a transaction with hammer_commit on a     *)
(* store whose commit may fail every time (it is locked by another        *)
(* process).  The client holds max_tries of the call (task), max_tries of  *)
(* the innermost call (dict) and the outcomes of the commits so far (copy) *)

DefaultTries == 10   \* hammer_commit(con, max_tries=10)
MaxTries == 12       \* the largest max_tries a caller passes

\* a hammer_commit that returns when its last attempt has failed
hammer_commit_quiet(max_tries, committed) ==
    IF committed \/ max_tries <= 1 THEN "returned" ELSE "sleep"

\* hammer_commit, one con.commit(): it returns when the commit succeeded;
\* an error is raised to the caller when max_tries <= 1, and is caught
\* (sleep, then the call with max_tries - 1) otherwise
hammer_commit(max_tries, committed) ==
    IF committed THEN "returned" ELSE IF max_tries <= 1 THEN "raised" ELSE "sleep"

\* hammer_commit(con, max_tries)
HammerCall ==
    /\ client.stage = ""
    /\ \E max_tries \in 0..MaxTries :
          client' = [stage |-> "commit", task |-> max_tries, dict |-> max_tries, copy |-> <<>>]
    /\ UNCHANGED Server

\* con.commit()
HammerTry ==
    /\ client.stage = "commit"
    /\ \E committed \in BOOLEAN :
          client' = [client EXCEPT !.stage = hammer_commit(client.dict, committed),
                                   !.copy = Append(@, committed)]
    /\ UNCHANGED Server

\* except: sleep(0.1); hammer_commit(con, max_tries=max_tries - 1)
HammerSleep ==
    /\ client.stage = "sleep"
    /\ client' = [client EXCEPT !.stage = "commit", !.dict = @ - 1]
    /\ UNCHANGED Server

CommitNext == HammerCall \/ HammerTry \/ HammerSleep

CommitSpec == Init /\ [][CommitNext]_vars

\* C39: hammer_commit(con, max_tries) tries the commit at most max_tries
\* times (once when max_tries is below 1), 10 times by default; no commit
\* follows one that succeeded, and the call returns exactly when a commit
\* has succeeded; when the last of the max_tries commits has failed too,
\* the call raises its error to the caller
C39_BoundedRetry ==
    client.stage # "" =>
       LET tries == Len(client.copy)
           most  == IF client.task < 1 THEN 1 ELSE client.task
       IN  /\ tries <= most
           /\ client.task = DefaultTries => tries <= 10
           /\ \A i \in 1..(tries - 1) : ~client.copy[i]
           /\ client.stage = "returned" <=> (tries > 0 /\ client.copy[tries])
           /\ client.stage = "raised" <=> (tries = most /\ ~client.copy[tries])

\* C39, witness: a call with the default max_tries has raised the error of
\* its 10th commit
C39_Witness ==
    /\ client.stage = "raised"
    /\ client.task = DefaultTries
    /\ Len(client.copy) = 10
    /\ \A i \in 1..10 : ~client.copy[i]

-----------------------------------------------------------------------------
(* ScenSpec: on a new store, either the clients act as in Spec, or one    *)
(* client plays the restart scenario: ScenPuts QUEUE_PUTs of Sleep(10),   *)
(* QUEUE_START, the daemon is killed, constructed and started again, and  *)
(* the queue is started whenever it is not running                        *)

ScenStep(k) == scen = k /\ events = 0 /\ scen' = k + 1 /\ UNCHANGED events

ScenPut == \E k \in 0..(ScenPuts - 1) : QueuePut(to_dict(SleepTask(10))) /\ ScenStep(k)

ScenStart == QueueStart /\ ScenStep(ScenPuts)

ScenKill == DaemonKill /\ ScenStep(ScenPuts + 1)

ScenRestart == DaemonInit /\ ScenStep(ScenPuts + 2)

ScenDone == scen = ScenPuts + 3

ScenBoot == (DaemonEnter \/ DaemonListen) /\ ScenDone /\ UNCHANGED <<events, scen>>

ScenResume == QueueStart /\ ScenDone /\ UNCHANGED <<events, scen>>

Scenario == ScenPut \/ ScenStart \/ ScenKill \/ ScenRestart \/ ScenBoot \/ ScenResume

ScenNext ==
    \/ ClientPut
    \/ ClientStart
    \/ EmptyRequest
    \/ Scenario
    \/ Workers_

ScenSpec ==
    /\ Init /\ [][ScenNext]_vars
    /\ WF_vars(Scenario)
    /\ \A w \in Workers : WF_vars(Worker(w))

\* C9: in the restart scenario no row is ACTIVE when the daemon has been
\* constructed again, and the queue eventually reports ok = 5
C9_RestartRecovery ==
    /\ [](ScenDone /\ last.op = "__init__" => n_active(tasks) = 0)
    /\ ScenDone ~> (progress(tasks, FALSE).ok = ScenPuts)

====
